---- MODULE Spec2Model ----
(***************************************************************************)
(* Model of the portopsicanalise content pipeline:                         *)
(*   src/src/agents/creator.py     CreatorAgent                            *)
(*   src/src/agents/poster.py      PosterAgent                             *)
(*   src/src/agents/supervisor.py  SupervisorAgent                         *)
(*   src/src/main.py               main                                    *)
(* Every method is an operator that maps the object, the files it reads    *)
(* and the outcomes of its external calls to an outcome record             *)
(* (returned value or raised exception, new object state, new files).      *)
(* The actions apply these operators; main composes them.                  *)
(***************************************************************************)
EXTENDS Integers, Sequences, FiniteSets, Bags, TLC

VARIABLES
    DEFERRED_ANNOTATIONS, \* the interpreter does not evaluate def annotations at import
    PIL_AVAILABLE,        \* creator.py:14-18
    INSTAGRAPI_AVAILABLE, \* poster.py:6-10
    kbFile,               \* the knowledge-base document on disk
    counterFile,          \* the counter file on disk
    logFile,              \* output_dir/generated_content_log.yaml
    images,               \* ids X with output_dir/X.png on disk
    captions,             \* ids X with output_dir/captions/X.txt on disk
    sessionFile,          \* TRUE when the instagram session file exists
    creator,              \* the CreatorAgent object
    poster,               \* the PosterAgent object
    supervisor,           \* the SupervisorAgent object
    returned,             \* the Content objects create_content returned, in order
    supLog,               \* the supervisor calls made so far, with their results
    last,                 \* the last call made and what it returned or raised
    mainRun               \* what the last run of main() did

vars == <<DEFERRED_ANNOTATIONS, PIL_AVAILABLE, INSTAGRAPI_AVAILABLE, kbFile,
          counterFile, logFile, images, captions, sessionFile, creator, poster,
          supervisor, returned, supLog, last, mainRun>>

-----------------------------------------------------------------------------
(* Bounds of the model *)

MaxConcepts == 2   \* concepts a knowledge base may hold
MaxCounter == 2    \* largest counter value issued
MaxTime == 2       \* values of int(time.time())
MaxCalls == 2      \* supervisor calls recorded
MaxMedia == 2      \* media ids photo_upload may return
MaxLines == 2      \* lines wrap() gives for one text
MaxRawLines == 2   \* lines of main_text.split("\n")
MaxCitations == 2  \* citations an item lists, and distinct authors, works and texts
MaxKeywords == 2   \* keywords an item lists

Range(s) == {s[i] : i \in 1..Len(s)}

\* the lists without repetition over a set of names, each in ascending order
DistinctSeqs(S) ==
    {s \in UNION {[1..n -> S] : n \in 0..Cardinality(S)} :
        \A i, j \in 1..Len(s) : i < j => s[i] < s[j]}

Names == 1..MaxConcepts

-----------------------------------------------------------------------------
(* models/content.py *)

ContentCategory ==
    {"conceitos_freudianos", "teoria_junguiana", "conceitos_lacanianos",
     "dicas_praticas", "reflexoes"}

ContentType == {"citacao", "conceito", "pergunta", "dica"}

\* Optional enum arguments use "None" for None.
\* A path: a pathlib.Path object, the str made of one, or None.
NoPath == [isNone |-> TRUE, isPathObj |-> FALSE, id |-> 0]

\* output_dir / f"{content_id}.png"
PathOf(id) == [isNone |-> FALSE, isPathObj |-> TRUE, id |-> id]

\* str(path)
StrOfPath(p) == [p EXCEPT !.isPathObj = FALSE]

\* only a Path object has .stem; a str has not
HasStem(p) == p.isPathObj

NonePostId == [isNone |-> TRUE, prefix |-> "", num |-> 0]

StrPostId(prefix, num) == [isNone |-> FALSE, prefix |-> prefix, num |-> num]

\* the dataclass; posted and post_id take their defaults (content.py:30-31)
Content(id, title, category, content_type, image_path) ==
    [id |-> id, title |-> title, category |-> category,
     content_type |-> content_type, image_path |-> image_path,
     posted |-> FALSE, post_id |-> NonePostId]

NoContent ==
    [id |-> 0, title |-> 0, category |-> "None", content_type |-> "None",
     image_path |-> NoPath, posted |-> FALSE, post_id |-> NonePostId]

-----------------------------------------------------------------------------
(* The knowledge-base document, as yaml.safe_load returns it *)

\* an empty file loads as None
NullDoc == [kind |-> "null", keys |-> {}, conceitos |-> <<>>]

\* a mapping; conceitos is the value under the key "conceitos" when present
DictDoc(keys, conceitos) == [kind |-> "dict", keys |-> keys, conceitos |-> conceitos]

\* a top-level list of concept entries
ListDoc(items) == [kind |-> "list", keys |-> {}, conceitos |-> items]

Docs ==
    {NullDoc, DictDoc({}, <<>>), DictDoc({"versao"}, <<>>)}
    \cup {DictDoc({"conceitos"}, c) : c \in DistinctSeqs(Names)}
    \cup {ListDoc(c) : c \in DistinctSeqs(Names)}

\* The entry of the knowledge base named n: its 'categorias' (catKind says
\* whether the key is missing, null or a list), and how many
\* 'citacoes', 'perguntas' and 'dicas' it lists.
Concept(n) ==
    [nome |-> n,
     catKind |-> "list",
     categorias |-> IF n % 3 = 1 THEN <<"conceitos_freudianos">>
                    ELSE IF n % 3 = 2 THEN <<"nao_e_categoria">>
                    ELSE <<>>,
     citacoes |-> IF n % 2 = 1 THEN 2 ELSE 0,
     perguntas |-> IF n % 2 = 0 THEN 1 ELSE 0,
     dicas |-> 0]

\* the shapes the 'categorias' of the entry named n may have in the document
ConceptVariants(n) ==
    {[Concept(n) EXCEPT !.catKind = "missing", !.categorias = <<>>],
     [Concept(n) EXCEPT !.catKind = "null", !.categorias = <<>>]}
    \cup {[Concept(n) EXCEPT !.categorias = c] :
             c \in {<<>>, <<"conceitos_freudianos">>, <<"nao_e_categoria">>,
                    <<"dicas_praticas", "reflexoes">>}}

\* the entries a 'citacoes' list may hold; 0 is a key that is absent or empty
Citations == [texto : 1..MaxCitations, autor : 0..MaxCitations, obra : 0..MaxCitations]

\* the non-empty 'citacoes' lists
CitationLists == UNION {[1..n -> Citations] : n \in 1..MaxCitations}

\* bool(doc)
DocTruthy(doc) ==
    CASE doc.kind = "null" -> FALSE
      [] doc.kind = "dict" -> doc.keys # {}
      [] doc.kind = "list" -> doc.conceitos # <<>>

\* doc.get("conceitos") of a mapping: the list, or None (here <<>>, both falsy)
DocGetConceitos(doc) == IF "conceitos" \in doc.keys THEN doc.conceitos ELSE <<>>

\* What `for item in doc` yields: the keys of a mapping (strings), the
\* entries of a list (mappings).
IterDoc(doc) ==
    IF doc.kind = "dict"
    THEN (IF "conceitos" \in doc.keys
          THEN <<[isDict |-> FALSE, nome |-> 0]>> ELSE <<>>)
         \o (IF "versao" \in doc.keys
             THEN <<[isDict |-> FALSE, nome |-> 0]>> ELSE <<>>)
    ELSE [i \in 1..Len(doc.conceitos) |->
             [isDict |-> TRUE, nome |-> doc.conceitos[i]]]

-----------------------------------------------------------------------------
(* Files *)

KbFiles ==
    {[state |-> "missing", doc |-> NullDoc], [state |-> "unreadable", doc |-> NullDoc]}
    \cup {[state |-> "ok", doc |-> d] : d \in Docs}

\* The characters of the counter file: 0..9 are the decimal digits,
\* Whitespace a blank or a newline, OtherChar any other character.
Whitespace == 10

OtherChar == 11

\* str.strip(): the text without its leading and trailing whitespace
Strip(text) ==
    LET kept == {i \in 1..Len(text) : text[i] # Whitespace}
    IN  IF kept = {} THEN <<>>
        ELSE SubSeq(text, CHOOSE i \in kept : \A j \in kept : i <= j,
                          CHOOSE i \in kept : \A j \in kept : j <= i)

\* int(content) accepts a non-empty run of decimal digits
IsDecimal(content) ==
    content # <<>> /\ \A i \in 1..Len(content) : content[i] \in 0..9

RECURSIVE IntOf(_)
IntOf(content) ==
    IF content = <<>> THEN 0
    ELSE 10 * IntOf(SubSeq(content, 1, Len(content) - 1)) + content[Len(content)]

\* str(n) for n >= 0
RECURSIVE StrOf(_)
StrOf(n) ==
    IF n < 10 THEN <<n>> ELSE Append(StrOf(n \div 10), n % 10)

\* the counter file: text is what f.read() gives
CounterFiles ==
    {[state |-> "missing", text |-> <<>>]}
    \cup {[state |-> "ok", text |-> t] :
             t \in {<<>>, <<Whitespace>>, <<OtherChar>>, <<1, Whitespace>>,
                    <<0, 1>>, <<1, 0>>}
                   \cup {StrOf(v) : v \in 0..(MaxCounter - 1)}}

LogFiles ==
    {[state |-> "missing", isList |-> FALSE, names |-> <<>>],
     [state |-> "unreadable", isList |-> FALSE, names |-> <<>>],
     [state |-> "ok", isList |-> FALSE, names |-> <<>>]}
    \cup {[state |-> "ok", isList |-> TRUE, names |-> s] : s \in DistinctSeqs(Names)}

-----------------------------------------------------------------------------
(* CreatorAgent, src/src/agents/creator.py *)

NoCreator ==
    [alive |-> FALSE, knowledge_base |-> NullDoc, current_counter |-> 0,
     used_content_names |-> <<>>]

\* the result of a helper: the exception it raised ("" for none) and its value
Result(exc, value) == [exc |-> exc, value |-> value]

\* self.logger.error(...) when self.logger is not yet assigned raises
\* AttributeError; otherwise the error is logged and the fallback returned.
LogAndReturn(hasLogger, fallback) ==
    IF hasLogger THEN Result("", fallback) ELSE Result("AttributeError", fallback)

load_knowledge_base(file, hasLogger) ==
    IF file.state = "ok" THEN Result("", file.doc)
    ELSE LogAndReturn(hasLogger, NullDoc)

load_counter(file, hasLogger) ==
    IF file.state = "ok"
    THEN LET content == Strip(file.text)
         IN  IF content # <<>>
             THEN IF IsDecimal(content) THEN Result("", IntOf(content))
                  ELSE LogAndReturn(hasLogger, 0)  \* int(content) raises ValueError
             ELSE Result("", 0)                     \* an empty file
    ELSE Result("", 0)                              \* no file

load_used_content_names(file) ==
    IF file.state = "ok" /\ file.isList THEN file.names ELSE <<>>

\* the keyword arguments each caller passes to CreatorAgent(...)
CreatorRequiredArgs ==
    {"templates_dir", "output_dir", "knowledge_base_path", "counter_file_path"}

\* CreatorAgent.__init__: the knowledge base and the counter are loaded
\* before self.logger is assigned, the used-content log after it.
CreatorAgent_init(supplied, kbF, cntF, logF) ==
    IF ~(CreatorRequiredArgs \subseteq supplied)
    THEN Result("TypeError", NoCreator)
    ELSE LET kb == load_knowledge_base(kbF, FALSE)
             cnt == load_counter(cntF, FALSE)
         IN  IF kb.exc # "" THEN Result(kb.exc, NoCreator)
             ELSE IF cnt.exc # "" THEN Result(cnt.exc, NoCreator)
             ELSE Result("", [alive |-> TRUE,
                              knowledge_base |-> kb.value,
                              current_counter |-> cnt.value,
                              used_content_names |-> load_used_content_names(logF)])

\* _get_available_knowledge_base: iterates self.knowledge_base itself and
\* calls item.get("nome") on every element
get_available_knowledge_base(self) ==
    LET elems == IterDoc(self.knowledge_base)
    IN  IF \E i \in 1..Len(elems) : ~elems[i].isDict
        THEN Result("AttributeError", <<>>)
        ELSE Result("", SelectSeq(elems,
                 LAMBDA e : e.nome \notin Range(self.used_content_names)))

determine_content_type(kb_item) ==
    IF kb_item.citacoes > 0 THEN "citacao"
    ELSE IF kb_item.perguntas > 0 THEN "pergunta"
    ELSE IF kb_item.dicas > 0 THEN "dica"
    ELSE "conceito"

\* actual_category (creator.py:222-226): the first entry of
\* selected_item.get("categorias", ["reflexoes"]) as a ContentCategory, the
\* except ValueError giving category or REFLECTION.  [0] on an empty list
\* raises IndexError and on None TypeError, which the except lets through.
actual_category_of(selected_item, category) ==
    LET categorias == IF selected_item.catKind = "missing" THEN <<"reflexoes">>
                      ELSE selected_item.categorias
    IN  IF selected_item.catKind = "null" THEN Result("TypeError", "None")
        ELSE IF categorias = <<>> THEN Result("IndexError", "None")
        ELSE IF categorias[1] \in ContentCategory THEN Result("", categorias[1])
        ELSE Result("", IF category # "None" THEN category ELSE "reflexoes")

\* actual_content_type (creator.py:228):
\* self._determine_content_type(selected_item) or content_type_filter or CONCEPT
actual_content_type_of(selected_item, content_type_filter) ==
    LET determined == determine_content_type(selected_item)
    IN  IF determined # "None" THEN determined
        ELSE IF content_type_filter # "None" THEN content_type_filter
        ELSE "conceito"

\* The text layout of _generate_image_with_pillow (creator.py:445-514), in
\* pixels.  The products the code takes (70 * 1.2, 70 * 0.5, 50 * 1.3,
\* 50 * 0.3, 35 * 1.2) are whole numbers, and exact as floats.
font_title_size == 70

font_body_size == 50

font_author_size == 35

line_height_title == (font_title_size * 12) \div 10

spacing_after_title == (font_title_size * 5) \div 10

line_height_body == (font_body_size * 13) \div 10

spacing_before_author == (font_body_size * 3) \div 10

line_height_author == (font_author_size * 12) \div 10

\* What the layout reads of the elements: whether each text is truthy and
\* the number of lines wrap() gives for it; raw_body_lines has, for every
\* line of main_text.split("\n"), the number of lines it wraps to.
NoElements ==
    [title_text |-> FALSE, title_lines |-> 0, main_text |-> FALSE,
     raw_body_lines |-> <<>>, author_text |-> FALSE, author_lines |-> 0]

Elements ==
    {[title_text |-> t[1], title_lines |-> t[2], main_text |-> b # <<>>,
      raw_body_lines |-> b, author_text |-> a > 0, author_lines |-> a] :
        t \in {<<FALSE, 0>>} \cup {<<TRUE, n>> : n \in 0..MaxLines},
        b \in UNION {[1..n -> 0..MaxLines] : n \in 0..MaxRawLines},
        a \in 0..MaxLines}

RECURSIVE SumSeq(_)
SumSeq(s) == IF s = <<>> THEN 0 ELSE s[1] + SumSeq(Tail(s))

\* len(temp_body_lines)
BodyLines(e) == SumSeq(e.raw_body_lines)

\* total_content_height as computed before drawing (creator.py:455-478)
total_content_height(e) ==
    LET raw == e.raw_body_lines
        title == IF e.title_text
                 THEN e.title_lines * line_height_title + spacing_after_title
                 ELSE 0
        body == IF e.main_text
                THEN SumSeq([i \in 1..Len(raw) |->
                        IF raw[i] > 0
                        THEN (raw[i] - 1) * line_height_body + font_body_size
                             + (IF i < Len(raw)
                                THEN line_height_body - font_body_size ELSE 0)
                        ELSE 0])
                ELSE 0
        author == IF e.author_text
                  THEN (IF e.main_text \/ e.title_text
                        THEN spacing_before_author ELSE 0)
                       + e.author_lines * line_height_author
                  ELSE 0
        last_line ==
            IF e.title_lines > 0 /\ BodyLines(e) = 0 /\ e.author_lines = 0
            THEN line_height_title - font_title_size
            ELSE IF BodyLines(e) > 0 /\ e.author_lines = 0
            THEN line_height_body - font_body_size
            ELSE IF e.author_lines > 0
            THEN line_height_author - font_author_size
            ELSE 0
    IN  title + body + author - last_line

\* what the drawing loops add to current_y (creator.py:482-514)
drawn_height(e) ==
    LET title == IF e.title_text
                 THEN e.title_lines * line_height_title + spacing_after_title
                 ELSE 0
        body == IF e.main_text /\ BodyLines(e) > 0
                THEN (BodyLines(e) - 1) * line_height_body + font_body_size
                ELSE 0
        author == IF e.author_text
                  THEN (IF e.main_text \/ e.title_text
                        THEN spacing_before_author ELSE 0)
                       + (IF e.author_lines > 0
                          THEN (e.author_lines - 1) * line_height_author
                               + font_author_size
                          ELSE 0)
                  ELSE 0
    IN  title + body + author

\* The steps of _generate_image_with_pillow that can fail.  The watermark,
\* the handle text and the small logo have a try/except of their own; the
\* rest is covered by the outer try, whose handler returns None.
ImageFailures ==
    {"none", "background", "watermark", "handle", "text", "small_logo", "save"}

\* _generate_image_with_pillow as it would be without the inner try blocks
generate_image_with_pillow_strict(pil, content_id, fail) ==
    IF ~pil THEN NoPath
    ELSE IF fail # "none" THEN NoPath
    ELSE PathOf(content_id)

generate_image_with_pillow(pil, content_id, fail) ==
    IF ~pil THEN NoPath
    ELSE IF fail \in {"background", "text", "save"} THEN NoPath
    ELSE PathOf(content_id)

\* _save_counter as it would be if it wrote the value to issue next
save_counter_next(counter) == [state |-> "ok", text |-> StrOf(counter + 1)]

\* _save_counter
save_counter(counter) == [state |-> "ok", text |-> StrOf(counter)]

\* _save_used_content_name without the test of line 171
save_used_content_name_unchecked(used, logF, content_name) ==
    [used |-> Append(used, content_name),
     logFile |-> [state |-> "ok", isList |-> TRUE,
                  names |-> Append(used, content_name)]]

\* _save_used_content_name: the new list and the log file
save_used_content_name(used, logF, content_name) ==
    IF content_name \notin Range(used)
    THEN [used |-> Append(used, content_name),
          logFile |-> [state |-> "ok", isList |-> TRUE,
                       names |-> Append(used, content_name)]]
    ELSE [used |-> used, logFile |-> logF]

CreateOutcome(ret, exc, content, selected, self, cntF, logF, imgs) ==
    [ret |-> ret, exc |-> exc, content |-> content, selected |-> selected,
     self |-> self, counterFile |-> cntF, logFile |-> logF, images |-> imgs]

\* create_content, from the item selected on (creator.py:220-307)
create_from_item(self, cntF, logF, imgs, caps, pil, category, content_type_filter, selected_item, fail) ==
    IF actual_category_of(selected_item, category).exc # ""
    THEN CreateOutcome("raise", actual_category_of(selected_item, category).exc,
                       NoContent, selected_item.nome, self, cntF, logF, imgs)
    ELSE
    LET actual_category == actual_category_of(selected_item, category).value
        actual_content_type ==
            actual_content_type_of(selected_item, content_type_filter)
        title == selected_item.nome
        counter == self.current_counter + 1
        content_id == counter
        self1 == [self EXCEPT !.current_counter = counter]
        cntF1 == save_counter(counter)
        image_path == generate_image_with_pillow(pil, content_id, fail)
        imgs1 == IF image_path.isNone THEN imgs ELSE imgs \cup {content_id}
        new_content ==
            Content(content_id, title, actual_category, actual_content_type,
                    IF image_path.isNone THEN NoPath ELSE StrOfPath(image_path))
    IN  IF ~new_content.image_path.isNone
        THEN IF ~HasStem(new_content.image_path)
             THEN CreateOutcome("raise", "AttributeError", NoContent, title,
                                self1, cntF1, logF, imgs1)
             ELSE IF content_id \in caps
                  THEN LET sv == save_used_content_name(self1.used_content_names,
                                                        logF, title)
                       IN  CreateOutcome("Content", "", new_content, title,
                               [self1 EXCEPT !.used_content_names = sv.used],
                               cntF1, sv.logFile, imgs1)
                  ELSE CreateOutcome("None", "", NoContent, title,
                                     self1, cntF1, logF, imgs1)
        ELSE CreateOutcome("None", "", NoContent, title, self1, cntF1, logF, imgs1)

\* create_content as it would be if an empty selection reset the used log
\* (the fallback the comment of creator.py:212 considers)
create_content_resetting(self, cntF, logF, imgs, caps, pil, category, content_type_filter, pick, fail) ==
    LET kb == self.knowledge_base
        Stop(ret, exc) == CreateOutcome(ret, exc, NoContent, 0, self, cntF, logF, imgs)
        Reset == CreateOutcome("None", "", NoContent, 0,
                               [self EXCEPT !.used_content_names = <<>>], cntF,
                               [state |-> "ok", isList |-> TRUE, names |-> <<>>], imgs)
    IN  IF ~DocTruthy(kb) THEN Reset
        ELSE IF kb.kind # "dict" THEN Stop("raise", "AttributeError")
        ELSE IF DocGetConceitos(kb) = <<>> THEN Reset
        ELSE LET available_kb == get_available_knowledge_base(self)
             IN  IF available_kb.exc # "" THEN Stop("raise", available_kb.exc)
                 ELSE IF available_kb.value = <<>> THEN Reset
                 ELSE create_from_item(self, cntF, logF, imgs, caps, pil, category,
                          content_type_filter,
                          Concept(available_kb.value[
                              ((pick - 1) % Len(available_kb.value)) + 1].nome),
                          fail)

\* CreatorAgent.create_content; pick is the draw of random.choice
create_content(self, cntF, logF, imgs, caps, pil, category, content_type_filter, pick, fail) ==
    LET kb == self.knowledge_base
        Stop(ret, exc) == CreateOutcome(ret, exc, NoContent, 0, self, cntF, logF, imgs)
    IN  IF ~DocTruthy(kb) THEN Stop("None", "")
        ELSE IF kb.kind # "dict" THEN Stop("raise", "AttributeError")
        ELSE IF DocGetConceitos(kb) = <<>> THEN Stop("None", "")
        ELSE LET available_kb == get_available_knowledge_base(self)
             IN  IF available_kb.exc # "" THEN Stop("raise", available_kb.exc)
                 ELSE IF available_kb.value = <<>> THEN Stop("None", "")
                 ELSE create_from_item(self, cntF, logF, imgs, caps, pil, category,
                          content_type_filter,
                          Concept(available_kb.value[
                              ((pick - 1) % Len(available_kb.value)) + 1].nome),
                          fail)

-----------------------------------------------------------------------------
(* PosterAgent, src/src/agents/poster.py *)

\* username, password and session_file are TRUE when given (truthy)
NoPoster ==
    [alive |-> FALSE, username |-> FALSE, password |-> FALSE,
     session_file |-> FALSE, instagram_client |-> FALSE]

\* The outcomes of the client's calls: load_settings, get_self_info and
\* dump_settings return or raise, login returns True or False or raises.
ClientOutcomes ==
    [load_settings : {"ok", "raise"}, get_self_info : {"ok", "raise"},
     login : {"True", "False", "raise"}, dump_settings : {"ok", "raise"}]

NoExt ==
    [load_settings |-> "ok", get_self_info |-> "ok", login |-> "True",
     dump_settings |-> "ok"]

InitOutcome(ret, self, sessF, calls) ==
    [ret |-> ret, self |-> self, sessionFile |-> sessF, calls |-> calls]

\* _initialize_client as it would be if the paths that return False left the
\* Client() object assigned at poster.py:53 in place
initialize_client_keeping_client(self, instagrapi, sessF, ext) ==
    LET WithClient == [self EXCEPT !.instagram_client = TRUE]
        NoClient == [self EXCEPT !.instagram_client = TRUE]
    IN
    IF ~instagrapi THEN InitOutcome(FALSE, self, sessF, <<>>)
    ELSE IF self.session_file /\ sessF
    THEN IF ext.load_settings = "raise"
         THEN InitOutcome(FALSE, NoClient, sessF, <<"load_settings">>)
         ELSE IF ext.get_self_info = "ok"
         THEN InitOutcome(TRUE, WithClient, sessF,
                          <<"load_settings", "get_self_info">>)
         ELSE IF ext.login = "True"
         THEN InitOutcome(TRUE, WithClient, sessF,
                          <<"load_settings", "get_self_info", "login">>)
         ELSE InitOutcome(FALSE, NoClient, sessF,
                          <<"load_settings", "get_self_info", "login">>)
    ELSE IF self.username /\ self.password
    THEN IF ext.login # "True"
         THEN InitOutcome(FALSE, NoClient, sessF, <<"login">>)
         ELSE IF self.session_file
         THEN InitOutcome(TRUE, WithClient,
                          IF ext.dump_settings = "ok" THEN TRUE ELSE sessF,
                          <<"login", "dump_settings">>)
         ELSE InitOutcome(TRUE, WithClient, sessF, <<"login">>)
    ELSE InitOutcome(FALSE, NoClient, sessF, <<>>)

\* _initialize_client as it would be if a loaded session that proves invalid
\* made it fail without a relogin
initialize_client_no_relogin(self, instagrapi, sessF, ext) ==
    LET WithClient == [self EXCEPT !.instagram_client = TRUE]
        NoClient == [self EXCEPT !.instagram_client = FALSE]
    IN
    IF ~instagrapi THEN InitOutcome(FALSE, self, sessF, <<>>)
    ELSE IF self.session_file /\ sessF
    THEN IF ext.load_settings = "raise"
         THEN InitOutcome(FALSE, NoClient, sessF, <<"load_settings">>)
         ELSE IF ext.get_self_info = "ok"
         THEN InitOutcome(TRUE, WithClient, sessF,
                          <<"load_settings", "get_self_info">>)
         ELSE InitOutcome(FALSE, NoClient, sessF,
                          <<"load_settings", "get_self_info">>)
    ELSE IF self.username /\ self.password
    THEN IF ext.login # "True"
         THEN InitOutcome(FALSE, NoClient, sessF, <<"login">>)
         ELSE IF self.session_file
         THEN InitOutcome(TRUE, WithClient,
                          IF ext.dump_settings = "ok" THEN TRUE ELSE sessF,
                          <<"login", "dump_settings">>)
         ELSE InitOutcome(TRUE, WithClient, sessF, <<"login">>)
    ELSE InitOutcome(FALSE, NoClient, sessF, <<>>)

\* _initialize_client; calls lists the client methods called, in order
initialize_client(self, instagrapi, sessF, ext) ==
    LET WithClient == [self EXCEPT !.instagram_client = TRUE]
        NoClient == [self EXCEPT !.instagram_client = FALSE]
    IN
    IF ~instagrapi THEN InitOutcome(FALSE, self, sessF, <<>>)
    ELSE IF self.session_file /\ sessF
    THEN IF ext.load_settings = "raise"
         THEN InitOutcome(FALSE, NoClient, sessF, <<"load_settings">>)
         ELSE IF ext.get_self_info = "ok"
         THEN InitOutcome(TRUE, WithClient, sessF,
                          <<"load_settings", "get_self_info">>)
         ELSE IF ext.login = "True"
         THEN InitOutcome(TRUE, WithClient, sessF,
                          <<"load_settings", "get_self_info", "login">>)
         ELSE InitOutcome(FALSE, NoClient, sessF,
                          <<"load_settings", "get_self_info", "login">>)
    ELSE IF self.username /\ self.password
    THEN IF ext.login # "True"
         THEN InitOutcome(FALSE, NoClient, sessF, <<"login">>)
         ELSE IF self.session_file
         THEN InitOutcome(TRUE, WithClient,
                          IF ext.dump_settings = "ok" THEN TRUE ELSE sessF,
                          <<"login", "dump_settings">>)
         ELSE InitOutcome(TRUE, WithClient, sessF, <<"login">>)
    ELSE InitOutcome(FALSE, NoClient, sessF, <<>>)

\* PosterAgent.__init__
PosterAgent_init(username, password, session_file, instagrapi, sessF, ext) ==
    LET self == [alive |-> TRUE, username |-> username, password |-> password,
                 session_file |-> session_file, instagram_client |-> FALSE]
    IN  IF ~instagrapi THEN InitOutcome(FALSE, self, sessF, <<>>)
        ELSE initialize_client(self, instagrapi, sessF, ext)

\* what photo_upload does: it raises (0) or returns the media with this id
UploadOutcomes == 0..MaxMedia

PostOutcome(ret, uploadCalled) == [ret |-> ret, uploadCalled |-> uploadCalled]

\* post_content as it would be without the test of the image file
post_content_any_path(self, instagrapi, content, imgs, now, upload) ==
    IF ~instagrapi \/ ~self.instagram_client
    THEN PostOutcome(StrPostId("simulated_failure_", now), FALSE)
    ELSE IF upload = 0
    THEN PostOutcome(NonePostId, TRUE)
    ELSE PostOutcome(StrPostId("", upload), TRUE)

\* post_content as it would be with the image test made before the client test
post_content_image_first(self, instagrapi, content, imgs, now, upload) ==
    IF content.image_path.isNone \/ content.image_path.id \notin imgs
    THEN PostOutcome(NonePostId, FALSE)
    ELSE IF ~instagrapi \/ ~self.instagram_client
    THEN PostOutcome(StrPostId("simulated_failure_", now), FALSE)
    ELSE IF upload = 0
    THEN PostOutcome(NonePostId, TRUE)
    ELSE PostOutcome(StrPostId("", upload), TRUE)

\* post_content; now is int(time.time()), upload the outcome of photo_upload
post_content(self, instagrapi, content, imgs, now, upload) ==
    IF ~instagrapi \/ ~self.instagram_client
    THEN PostOutcome(StrPostId("simulated_failure_", now), FALSE)
    ELSE IF content.image_path.isNone \/ content.image_path.id \notin imgs
    THEN PostOutcome(NonePostId, FALSE)
    ELSE IF upload = 0
    THEN PostOutcome(NonePostId, TRUE)
    ELSE PostOutcome(StrPostId("", upload), TRUE)

-----------------------------------------------------------------------------
(* SupervisorAgent, src/src/agents/supervisor.py *)

NoSupervisor == [alive |-> FALSE, instagram_client |-> FALSE]

\* SupervisorAgent.__init__: instagram_client is a placeholder, set to None
SupervisorAgent_init == [alive |-> TRUE, instagram_client |-> FALSE]

NoneMetrics == [isNone |-> TRUE, likes |-> 0, comments |-> 0, timestamp |-> 0]

\* expected_caption: "None", or a caption that matches the post or does not
Captions == {"None", "match", "mismatch"}

\* verify_post as it would be if it compared the caption, as the code it
\* keeps commented out does (supervisor.py:84-87)
verify_post_comparing(self, post_id, expected_caption) ==
    expected_caption # "mismatch"

verify_post(self, post_id, expected_caption) ==
    IF ~self.instagram_client THEN TRUE ELSE TRUE

\* collect_engagement_metrics as it would be without the test of the client
collect_engagement_metrics_unguarded(self, post_id, now) ==
    [isNone |-> FALSE, likes |-> 0, comments |-> 0, timestamp |-> now]

collect_engagement_metrics(self, post_id, now) ==
    IF ~self.instagram_client THEN NoneMetrics
    ELSE [isNone |-> FALSE, likes |-> 0, comments |-> 0, timestamp |-> now]

health_check(self) == TRUE

-----------------------------------------------------------------------------
(* main, src/src/main.py *)

Modes == {"create", "post", "supervise", "full_cycle", "test_creator"}

\* the keyword arguments main passes to CreatorAgent(...) (main.py:98-103)
MainCreatorArgs == {"templates_dir", "output_dir", "knowledge_base_path"}

\* the keyword arguments creator.py's own entry point passes (creator.py:637-642)
CreatorMainArgs ==
    {"templates_dir", "output_dir", "knowledge_base_path", "counter_file_path"}

\* supervisor.py names Dict in a def annotation without importing it, and
\* creator.py names ImageFont in one, which is unbound without Pillow: an
\* interpreter that evaluates annotations at definition raises NameError.
CreatorImportable(deferred, pil) == deferred \/ pil

SupervisorImportable(deferred) == deferred

MainImportable(deferred, pil) ==
    CreatorImportable(deferred, pil) /\ SupervisorImportable(deferred)

\* The frame of a run of main: the calls made so far, the exception that
\* reached the handler of main.py:170 ("" for none), content_to_post
\* (has is FALSE when it is None), the agents and the files.
MainFrame(cntF, logF, imgs, sessF) ==
    [calls |-> <<>>, exc |-> "", has |-> FALSE, content |-> NoContent,
     creator |-> NoCreator, poster |-> NoPoster, supervisor |-> NoSupervisor,
     counterFile |-> cntF, logFile |-> logF, images |-> imgs,
     sessionFile |-> sessF]

\* main.py:96-115
main_construct(st, kbF, instagrapi, ch) ==
    LET c == CreatorAgent_init(MainCreatorArgs, kbF, st.counterFile, st.logFile)
        p == PosterAgent_init(ch.username, ch.password, TRUE, instagrapi,
                              st.sessionFile, ch.ext)
    IN  IF c.exc # ""
        THEN [st EXCEPT !.calls = Append(@, "CreatorAgent"), !.exc = c.exc]
        ELSE [st EXCEPT !.calls = @ \o <<"CreatorAgent", "PosterAgent", "SupervisorAgent">>,
                        !.creator = c.value,
                        !.poster = p.self,
                        !.sessionFile = p.sessionFile,
                        !.supervisor = SupervisorAgent_init]

\* main.py:120-130
main_create(st, mode, caps, pil, ch) ==
    IF st.exc # "" \/ mode \notin {"create", "full_cycle", "test_creator"} THEN st
    ELSE LET r == create_content(st.creator, st.counterFile, st.logFile, st.images,
                                 caps, pil, "None", "None", ch.pick, ch.fail)
         IN  [st EXCEPT !.calls = Append(@, "create_content"),
                        !.exc = r.exc,
                        !.has = (r.ret = "Content"),
                        !.content = r.content,
                        !.creator = r.self,
                        !.counterFile = r.counterFile,
                        !.logFile = r.logFile,
                        !.images = r.images]

\* main.py:132-146
main_post(st, mode, instagrapi, ch) ==
    IF st.exc # "" \/ mode \notin {"post", "full_cycle"} THEN st
    ELSE IF ~st.has THEN st
    ELSE IF st.content.image_path.isNone THEN st
    ELSE LET r == post_content(st.poster, instagrapi, st.content, st.images,
                               ch.now, ch.upload)
         IN  [st EXCEPT !.calls = Append(@, "post_content"),
                        !.content = IF ~r.ret.isNone
                                    THEN [@ EXCEPT !.posted = TRUE, !.post_id = r.ret]
                                    ELSE @]

\* main.py:148-167
main_supervise(st, mode, ch) ==
    IF st.exc # "" \/ mode \notin {"supervise", "full_cycle"} THEN st
    ELSE LET checked ==
                 IF st.has /\ ~st.content.post_id.isNone
                 THEN IF verify_post(st.supervisor, st.content.post_id, "None")
                      THEN <<"verify_post", "collect_engagement_metrics">>
                      ELSE <<"verify_post">>
                 ELSE <<>>
         IN  IF health_check(st.supervisor)
             THEN [st EXCEPT !.calls = @ \o checked \o <<"health_check">>]
             ELSE [st EXCEPT !.calls = @ \o checked \o <<"health_check">>]

\* main(): mode and configLoadable are the command line and what
\* load_config finds; ch holds the outcomes of the random and external calls
main(mode, configLoadable, deferred, pil, instagrapi, kbF, cntF, logF, imgs, caps, sessF, ch) ==
    LET st0 == MainFrame(cntF, logF, imgs, sessF)
    IN  IF ~MainImportable(deferred, pil) THEN [st0 EXCEPT !.exc = "NameError"]
        ELSE IF ~configLoadable THEN [st0 EXCEPT !.calls = <<"load_config">>]
        ELSE main_supervise(
                 main_post(
                     main_create(
                         main_construct([st0 EXCEPT !.calls = <<"load_config">>],
                                        kbF, instagrapi, ch),
                         mode, caps, pil, ch),
                     mode, instagrapi, ch),
                 mode, ch)

-----------------------------------------------------------------------------
(* State, and the calls the entry points make *)

NoCall ==
    [op |-> "", ret |-> "", exc |-> "", content |-> NoContent, selected |-> 0,
     usedBefore |-> <<>>, logBefore |-> [state |-> "missing", isList |-> FALSE, names |-> <<>>],
     imageFails |-> FALSE, arg |-> NoContent, pid |-> NonePostId,
     uploadCalled |-> FALSE, upload |-> 0, path |-> NoPath, cid |-> 0,
     counterBefore |-> 0, fileBefore |-> [state |-> "missing", text |-> <<>>],
     elements |-> NoElements, total_content_height |-> 0, drawn |-> 0,
     initRet |-> FALSE, clientCalls |-> <<>>, ext |-> NoExt,
     sessionBefore |-> FALSE, filter |-> "None", item |-> 0,
     kbItem |-> Concept(0), category |-> "None",
     content_type |-> "None", keywords |-> <<>>, hashtags |-> EmptyBag,
     fail |-> "none",
     citacoes |-> <<>>, chosen |-> 0, image_main_text |-> 0,
     image_author_text |-> 0, caption_author |-> 0, caption_obra |-> 0]

NoRun ==
    [ran |-> FALSE, mode |-> "", configLoadable |-> FALSE, calls |-> <<>>,
     exc |-> "", has |-> FALSE, content |-> NoContent]

\* the category and content_type_filter arguments tried
CategoryArgs == {"None", "dicas_praticas"}

TypeArgs == {"None", "citacao"}

Times == 1..MaxTime

ImageIds == 1..MaxCounter

\* the Content objects handed to post_content (poster.py:182-193)
PosterContents ==
    UNION {{Content(id, 1, "reflexoes", "conceito", path) :
               path \in {NoPath, StrOfPath(PathOf(id))}} : id \in ImageIds}

\* the post ids handed to the supervisor
PostIds ==
    {StrPostId("simulated_failure_", t) : t \in Times}
    \cup {StrPostId("", m) : m \in 1..MaxMedia}

NoObjects ==
    /\ creator = NoCreator
    /\ poster = NoPoster
    /\ supervisor = NoSupervisor
    /\ returned = <<>>
    /\ supLog = <<>>
    /\ last = NoCall
    /\ mainRun = NoRun

FreshCounterFile == [state |-> "missing", text |-> <<>>]

FreshLogFile == [state |-> "missing", isList |-> FALSE, names |-> <<>>]

\* knowledge_base.yaml with every concept under "conceitos"
FullKbFile ==
    [state |-> "ok",
     doc |-> DictDoc({"conceitos"}, [i \in 1..MaxConcepts |-> i])]

\* the environments creator.py's entry point can be started in
InitCreator ==
    /\ DEFERRED_ANNOTATIONS \in BOOLEAN
    /\ PIL_AVAILABLE \in BOOLEAN
    /\ INSTAGRAPI_AVAILABLE = TRUE
    /\ kbFile \in KbFiles
    /\ counterFile \in CounterFiles
    /\ logFile \in LogFiles
    /\ images = {}
    /\ captions = {}
    /\ sessionFile = FALSE
    /\ NoObjects

\* the environments an agent that draws images is constructed in
InitImage ==
    /\ DEFERRED_ANNOTATIONS \in BOOLEAN
    /\ PIL_AVAILABLE \in BOOLEAN
    /\ INSTAGRAPI_AVAILABLE = TRUE
    /\ kbFile = FullKbFile
    /\ counterFile = FreshCounterFile
    /\ logFile = FreshLogFile
    /\ images = {}
    /\ captions = {}
    /\ sessionFile = FALSE
    /\ NoObjects

\* the environments poster.py's entry point can be started in
InitPoster ==
    /\ DEFERRED_ANNOTATIONS = TRUE
    /\ PIL_AVAILABLE = TRUE
    /\ INSTAGRAPI_AVAILABLE \in BOOLEAN
    /\ kbFile = FullKbFile
    /\ counterFile = FreshCounterFile
    /\ logFile = FreshLogFile
    /\ images \in SUBSET ImageIds
    /\ captions = {}
    /\ sessionFile \in BOOLEAN
    /\ NoObjects

\* the environments supervisor.py's entry point can be started in
InitSupervisor ==
    /\ DEFERRED_ANNOTATIONS \in BOOLEAN
    /\ PIL_AVAILABLE = TRUE
    /\ INSTAGRAPI_AVAILABLE = TRUE
    /\ kbFile = FullKbFile
    /\ counterFile = FreshCounterFile
    /\ logFile = FreshLogFile
    /\ images = {}
    /\ captions = {}
    /\ sessionFile = FALSE
    /\ NoObjects

\* the environments main.py can be started in, on a fresh output directory
InitMain ==
    /\ DEFERRED_ANNOTATIONS \in BOOLEAN
    /\ PIL_AVAILABLE \in BOOLEAN
    /\ INSTAGRAPI_AVAILABLE \in BOOLEAN
    /\ kbFile \in KbFiles
    /\ counterFile = FreshCounterFile
    /\ logFile \in {FreshLogFile, [state |-> "ok", isList |-> TRUE, names |-> <<1>>]}
    /\ images = {}
    /\ captions = {}
    /\ sessionFile \in BOOLEAN
    /\ NoObjects

\* creator = CreatorAgent(...) with the counter file path (creator.py:637-642)
NewCreatorAgent ==
    /\ CreatorImportable(DEFERRED_ANNOTATIONS, PIL_AVAILABLE)
    /\ LET r == CreatorAgent_init(CreatorMainArgs, kbFile, counterFile, logFile)
       IN  /\ creator' = IF r.exc = "" THEN r.value ELSE creator
           /\ last' = [NoCall EXCEPT !.op = "CreatorAgent", !.exc = r.exc,
                                     !.ret = IF r.exc = "" THEN "object" ELSE "raise"]
    /\ UNCHANGED <<DEFERRED_ANNOTATIONS, PIL_AVAILABLE, INSTAGRAPI_AVAILABLE,
                   kbFile, counterFile, logFile, images, captions, sessionFile,
                   poster, supervisor, returned, supLog, mainRun>>

\* creator.create_content(category, content_type_filter)
CreateContent ==
    /\ creator.alive
    /\ creator.current_counter < MaxCounter
    /\ \E category \in CategoryArgs, content_type_filter \in TypeArgs,
          pick \in Names, fail \in ImageFailures :
          LET r == create_content(creator, counterFile, logFile, images, captions,
                                  PIL_AVAILABLE, category, content_type_filter,
                                  pick, fail)
          IN  /\ creator' = r.self
              /\ counterFile' = r.counterFile
              /\ logFile' = r.logFile
              /\ images' = r.images
              /\ last' = [NoCall EXCEPT !.op = "create_content", !.ret = r.ret,
                                        !.exc = r.exc, !.content = r.content,
                                        !.selected = r.selected,
                                        !.usedBefore = creator.used_content_names,
                                        !.logBefore = logFile,
                                        !.counterBefore = creator.current_counter,
                                        !.fileBefore = counterFile,
                                        !.filter = content_type_filter,
                                        !.imageFails =
                                            generate_image_with_pillow(
                                                PIL_AVAILABLE, 1, fail).isNone]
              /\ returned' = IF r.ret = "Content"
                             THEN Append(returned, r.content) ELSE returned
    /\ UNCHANGED <<DEFERRED_ANNOTATIONS, PIL_AVAILABLE, INSTAGRAPI_AVAILABLE,
                   kbFile, captions, sessionFile, poster, supervisor, supLog,
                   mainRun>>

\* poster = PosterAgent(username, password, session_file)
NewPosterAgent ==
    /\ \E username \in BOOLEAN, password \in BOOLEAN, session_file \in BOOLEAN,
          ext \in ClientOutcomes :
          LET r == PosterAgent_init(username, password, session_file,
                                    INSTAGRAPI_AVAILABLE, sessionFile, ext)
          IN  /\ poster' = r.self
              /\ sessionFile' = r.sessionFile
              /\ last' = [NoCall EXCEPT !.op = "PosterAgent", !.ret = "object",
                                        !.initRet = r.ret, !.clientCalls = r.calls,
                                        !.ext = ext, !.sessionBefore = sessionFile]
    /\ UNCHANGED <<DEFERRED_ANNOTATIONS, PIL_AVAILABLE, INSTAGRAPI_AVAILABLE,
                   kbFile, counterFile, logFile, images, captions, creator,
                   supervisor, returned, supLog, mainRun>>

\* poster.post_content(content)
PostContent ==
    /\ poster.alive
    /\ \E content \in PosterContents, now \in Times, upload \in UploadOutcomes :
          LET r == post_content(poster, INSTAGRAPI_AVAILABLE, content, images,
                                now, upload)
          IN  /\ last' = [NoCall EXCEPT !.op = "post_content",
                                        !.ret = IF r.ret.isNone THEN "None" ELSE "id",
                                        !.arg = content, !.pid = r.ret,
                                        !.uploadCalled = r.uploadCalled,
                                        !.upload = IF r.uploadCalled THEN upload ELSE 0]
    /\ UNCHANGED <<DEFERRED_ANNOTATIONS, PIL_AVAILABLE, INSTAGRAPI_AVAILABLE,
                   kbFile, counterFile, logFile, images, captions, sessionFile,
                   creator, poster, supervisor, returned, supLog, mainRun>>

\* poster._initialize_client(), called again on a constructed agent
InitializeClient ==
    /\ poster.alive
    /\ \E ext \in ClientOutcomes :
          LET r == initialize_client(poster, INSTAGRAPI_AVAILABLE, sessionFile, ext)
          IN  /\ poster' = r.self
              /\ sessionFile' = r.sessionFile
              /\ last' = [NoCall EXCEPT !.op = "_initialize_client",
                                        !.ret = IF r.ret THEN "True" ELSE "False",
                                        !.initRet = r.ret, !.clientCalls = r.calls,
                                        !.ext = ext, !.sessionBefore = sessionFile]
    /\ UNCHANGED <<DEFERRED_ANNOTATIONS, PIL_AVAILABLE, INSTAGRAPI_AVAILABLE,
                   kbFile, counterFile, logFile, images, captions, creator,
                   supervisor, returned, supLog, mainRun>>

SupCall(op, post_id, caption, ret, metrics) ==
    [op |-> op, post_id |-> post_id, caption |-> caption, ret |-> ret,
     metrics |-> metrics]

SupervisorFrame ==
    UNCHANGED <<DEFERRED_ANNOTATIONS, PIL_AVAILABLE, INSTAGRAPI_AVAILABLE,
                kbFile, counterFile, logFile, images, captions, sessionFile,
                creator, poster, returned, mainRun>>

\* supervisor = SupervisorAgent(...)
NewSupervisorAgent ==
    /\ SupervisorImportable(DEFERRED_ANNOTATIONS)
    /\ supervisor' = SupervisorAgent_init
    /\ last' = [NoCall EXCEPT !.op = "SupervisorAgent", !.ret = "object"]
    /\ UNCHANGED supLog
    /\ SupervisorFrame

\* supervisor.verify_post(post_id, expected_caption)
VerifyPost ==
    /\ supervisor.alive
    /\ Len(supLog) < MaxCalls
    /\ \E post_id \in PostIds, expected_caption \in Captions :
          LET r == verify_post(supervisor, post_id, expected_caption)
          IN  /\ supLog' = Append(supLog, SupCall("verify_post", post_id,
                                                  expected_caption, r, NoneMetrics))
              /\ last' = [NoCall EXCEPT !.op = "verify_post",
                                        !.ret = IF r THEN "True" ELSE "False"]
    /\ UNCHANGED supervisor
    /\ SupervisorFrame

\* supervisor.collect_engagement_metrics(post_id)
CollectEngagementMetrics ==
    /\ supervisor.alive
    /\ Len(supLog) < MaxCalls
    /\ \E post_id \in PostIds, now \in Times :
          LET r == collect_engagement_metrics(supervisor, post_id, now)
          IN  /\ supLog' = Append(supLog, SupCall("collect_engagement_metrics",
                                                  post_id, "None", ~r.isNone, r))
              /\ last' = [NoCall EXCEPT !.op = "collect_engagement_metrics",
                                        !.ret = IF r.isNone THEN "None" ELSE "metrics"]
    /\ UNCHANGED supervisor
    /\ SupervisorFrame

\* supervisor.health_check()
HealthCheck ==
    /\ supervisor.alive
    /\ Len(supLog) < MaxCalls
    /\ LET r == health_check(supervisor)
       IN  /\ supLog' = Append(supLog, SupCall("health_check", NonePostId, "None",
                                               r, NoneMetrics))
           /\ last' = [NoCall EXCEPT !.op = "health_check",
                                     !.ret = IF r THEN "True" ELSE "False"]
    /\ UNCHANGED supervisor
    /\ SupervisorFrame

\* the outcomes of the random and external calls of a run of main
MainChoices ==
    [pick : Names, fail : {"none", "save"},
     ext : {e \in ClientOutcomes :
               e.load_settings = "ok" /\ e.dump_settings = "ok"},
     now : {1}, upload : {0, 1}, username : BOOLEAN, password : {TRUE}]

\* python -m src.main --mode mode --config path
Main ==
    /\ ~mainRun.ran
    /\ \E mode \in Modes, configLoadable \in BOOLEAN, ch \in MainChoices :
          LET r == main(mode, configLoadable, DEFERRED_ANNOTATIONS, PIL_AVAILABLE,
                        INSTAGRAPI_AVAILABLE, kbFile, counterFile, logFile, images,
                        captions, sessionFile, ch)
          IN  /\ mainRun' = [ran |-> TRUE, mode |-> mode,
                             configLoadable |-> configLoadable, calls |-> r.calls,
                             exc |-> r.exc, has |-> r.has, content |-> r.content]
              /\ counterFile' = r.counterFile
              /\ logFile' = r.logFile
              /\ images' = r.images
              /\ sessionFile' = r.sessionFile
              /\ last' = [NoCall EXCEPT !.op = "main", !.exc = r.exc]
    /\ UNCHANGED <<DEFERRED_ANNOTATIONS, PIL_AVAILABLE, INSTAGRAPI_AVAILABLE,
                   kbFile, captions, creator, poster, supervisor, returned,
                   supLog>>

NextCreator == NewCreatorAgent \/ CreateContent

NextPoster == NewPosterAgent \/ InitializeClient \/ PostContent

NextSupervisor ==
    NewSupervisorAgent \/ VerifyPost \/ CollectEngagementMetrics \/ HealthCheck

NextMain == Main

SpecCreator == InitCreator /\ [][NextCreator]_vars

SpecPoster == InitPoster /\ [][NextPoster]_vars

SpecSupervisor == InitSupervisor /\ [][NextSupervisor]_vars

SpecMain == InitMain /\ [][NextMain]_vars


-----------------------------------------------------------------------------
(* The methods of a constructed CreatorAgent, called one by one *)

\* creator._generate_image_with_pillow(content_id, elements, category) with
\* the elements taken from ElementChoices and the step that fails from
\* FailureChoices
GenerateImageOf(ElementChoices, FailureChoices) ==
    /\ creator.alive
    /\ \E content_id \in ImageIds, fail \in FailureChoices :
       \E elements \in IF generate_image_with_pillow(PIL_AVAILABLE, content_id,
                                                     fail).isNone
                        THEN {NoElements} ELSE ElementChoices :
          LET image_path == generate_image_with_pillow(PIL_AVAILABLE, content_id, fail)
              drew == ~image_path.isNone
          IN  /\ images' = IF image_path.isNone THEN images
                           ELSE images \cup {content_id}
              /\ last' = [NoCall EXCEPT !.op = "_generate_image_with_pillow",
                                        !.ret = IF image_path.isNone THEN "None"
                                                ELSE "Path",
                                        !.path = image_path, !.cid = content_id,
                                        !.fail = fail,
                                        !.elements = elements,
                                        !.total_content_height =
                                            IF drew THEN total_content_height(elements)
                                            ELSE 0,
                                        !.drawn =
                                            IF drew THEN drawn_height(elements)
                                            ELSE 0]
    /\ UNCHANGED <<DEFERRED_ANNOTATIONS, PIL_AVAILABLE, INSTAGRAPI_AVAILABLE,
                   kbFile, counterFile, logFile, captions, sessionFile, creator,
                   poster, supervisor, returned, supLog, mainRun>>

\* creator._save_counter()
SaveCounter ==
    /\ creator.alive
    /\ counterFile' = save_counter(creator.current_counter)
    /\ last' = [NoCall EXCEPT !.op = "_save_counter",
                              !.counterBefore = creator.current_counter,
                              !.fileBefore = counterFile]
    /\ UNCHANGED <<DEFERRED_ANNOTATIONS, PIL_AVAILABLE, INSTAGRAPI_AVAILABLE,
                   kbFile, logFile, images, captions, sessionFile, creator,
                   poster, supervisor, returned, supLog, mainRun>>

\* the content type create_content gives a knowledge-base item:
\* creator._determine_content_type(kb_item) or content_type_filter or CONCEPT
DetermineContentType ==
    /\ creator.alive
    /\ creator.knowledge_base.kind = "dict"
    /\ \E nome \in Range(DocGetConceitos(creator.knowledge_base)),
          content_type_filter \in TypeArgs :
          last' = [NoCall EXCEPT !.op = "_determine_content_type",
                                 !.ret = actual_content_type_of(Concept(nome),
                                                                content_type_filter),
                                 !.filter = content_type_filter,
                                 !.item = nome]
    /\ UNCHANGED <<DEFERRED_ANNOTATIONS, PIL_AVAILABLE, INSTAGRAPI_AVAILABLE,
                   kbFile, counterFile, logFile, images, captions, sessionFile,
                   creator, poster, supervisor, returned, supLog, mainRun>>

\* the failures the outer try of _generate_image_with_pillow handles
OuterFailures == {"none", "background", "text", "save"}

\* texts of any number of lines, drawn with every optional layer in place
GenerateImage == GenerateImageOf(Elements, OuterFailures)

\* texts of at most one line each; the layers drawn do not depend on the text
ShortElements ==
    {e \in Elements : /\ e.title_lines <= 1
                      /\ e.raw_body_lines = <<1>>
                      /\ e.author_lines <= 1}

GenerateShortImage == GenerateImageOf(ShortElements, ImageFailures)

NextImage == NewCreatorAgent \/ GenerateImage

NextLayers == NewCreatorAgent \/ GenerateShortImage

SpecLayers == InitImage /\ [][NextLayers]_vars

\* the category create_content gives a knowledge-base item (creator.py:222-226)
DeriveCategory ==
    /\ creator.alive
    /\ creator.knowledge_base.kind = "dict"
    /\ \E nome \in Range(DocGetConceitos(creator.knowledge_base)),
          category \in CategoryArgs :
       \E selected_item \in ConceptVariants(nome) :
          LET r == actual_category_of(selected_item, category)
          IN  last' = [NoCall EXCEPT !.op = "actual_category",
                                     !.ret = r.value, !.exc = r.exc,
                                     !.kbItem = selected_item,
                                     !.category = category]
    /\ UNCHANGED <<DEFERRED_ANNOTATIONS, PIL_AVAILABLE, INSTAGRAPI_AVAILABLE,
                   kbFile, counterFile, logFile, images, captions, sessionFile,
                   creator, poster, supervisor, returned, supLog, mainRun>>

\* Strings that are compared character by character are tuples of
\* one-character strings.
\* "PortoPsicanalise", "Psicanalise", "SaudeMental"
base_hashtags ==
    <<<<"P", "o", "r", "t", "o", "P", "s", "i", "c", "a", "n", "a", "l", "i", "s", "e">>,
      <<"P", "s", "i", "c", "a", "n", "a", "l", "i", "s", "e">>,
      <<"S", "a", "u", "d", "e", "M", "e", "n", "t", "a", "l">>>>

\* category_map.get(category, [])
category_map(category) ==
    IF category = "conceitos_freudianos"
        THEN <<<<"F", "r", "e", "u", "d">>,
               <<"T", "e", "o", "r", "i", "a", "F", "r", "e", "u", "d", "i", "a", "n", "a">>>>
    ELSE IF category = "teoria_junguiana"
        THEN <<<<"J", "u", "n", "g">>,
               <<"P", "s", "i", "c", "o", "l", "o", "g", "i", "a", "A", "n", "a", "l", "i", "t", "i", "c", "a">>>>
    ELSE IF category = "conceitos_lacanianos"
        THEN <<<<"L", "a", "c", "a", "n">>,
               <<"T", "e", "o", "r", "i", "a", "L", "a", "c", "a", "n", "i", "a", "n", "a">>>>
    ELSE IF category = "dicas_praticas"
        THEN <<<<"D", "i", "c", "a", "s", "P", "s", "i", "c", "o", "l", "o", "g", "i", "c", "a", "s">>,
               <<"A", "u", "t", "o", "c", "o", "n", "h", "e", "c", "i", "m", "e", "n", "t", "o">>>>
    ELSE IF category = "reflexoes"
        THEN <<<<"R", "e", "f", "l", "e", "x", "a", "o", "D", "i", "a", "r", "i", "a">>,
               <<"P", "e", "n", "s", "a", "m", "e", "n", "t", "o", "C", "r", "i", "t", "i", "c", "o">>>>
    ELSE <<>>

\* content_type_map.get(content_type, [])
content_type_map(content_type) ==
    IF content_type = "citacao"
        THEN <<<<"C", "i", "t", "a", "c", "o", "e", "s">>,
               <<"F", "r", "a", "s", "e", "s", "I", "n", "s", "p", "i", "r", "a", "d", "o", "r", "a", "s">>>>
    ELSE IF content_type = "conceito"
        THEN <<<<"C", "o", "n", "c", "e", "i", "t", "o", "s", "P", "s", "i", "c", "a", "n", "a", "l", "i", "t", "i", "c", "o", "s">>,
               <<"A", "p", "r", "e", "n", "d", "e", "r", "P", "s", "i", "c", "a", "n", "a", "l", "i", "s", "e">>>>
    ELSE IF content_type = "pergunta"
        THEN <<<<"P", "s", "i", "c", "a", "n", "a", "l", "i", "s", "e", "R", "e", "s", "p", "o", "n", "d", "e">>,
               <<"Q", "u", "e", "s", "t", "i", "o", "n", "e", "S", "e">>>>
    ELSE IF content_type = "dica"
        THEN <<<<"D", "i", "c", "a", "D", "e", "P", "s", "i", "c", "o", "l", "o", "g", "i", "a">>,
               <<"B", "e", "m", "E", "s", "t", "a", "r", "E", "m", "o", "c", "i", "o", "n", "a", "l">>>>
    ELSE <<>>

lowercase == <<"a", "b", "c", "d", "e", "f", "g", "h", "i", "j", "k", "l", "m", "n", "o", "p", "q", "r", "s", "t", "u", "v", "w", "x", "y", "z">>
uppercase == <<"A", "B", "C", "D", "E", "F", "G", "H", "I", "J", "K", "L", "M", "N", "O", "P", "Q", "R", "S", "T", "U", "V", "W", "X", "Y", "Z">>

\* c.upper() and c.lower() of one character
Upper(c) ==
    IF \E i \in 1..Len(lowercase) : lowercase[i] = c
    THEN uppercase[CHOOSE i \in 1..Len(lowercase) : lowercase[i] = c] ELSE c
Lower(c) ==
    IF \E i \in 1..Len(uppercase) : uppercase[i] = c
    THEN lowercase[CHOOSE i \in 1..Len(uppercase) : uppercase[i] = c] ELSE c

\* s.replace(old, "") for a one-character old
RECURSIVE replace(_, _)
replace(s, old) ==
    IF s = <<>> THEN <<>>
    ELSE IF Head(s) = old THEN replace(Tail(s), old)
    ELSE <<Head(s)>> \o replace(Tail(s), old)

\* s.capitalize(): the first character upper case, the others lower case
capitalize(s) ==
    IF s = <<>> THEN <<>>
    ELSE <<Upper(s[1])>> \o [i \in 1..(Len(s) - 1) |-> Lower(s[i + 1])]

\* the keywords the knowledge base may list under 'palavras_chave':
\* "freud", "JUNG", "saude mental", "auto-estima", "ego", ""
Keywords ==
    {<<"f", "r", "e", "u", "d">>, <<"J", "U", "N", "G">>,
     <<"s", "a", "u", "d", "e", " ", "m", "e", "n", "t", "a", "l">>,
     <<"a", "u", "t", "o", "-", "e", "s", "t", "i", "m", "a">>,
     <<"e", "g", "o">>, <<>>}

KeywordLists == UNION {[1..n -> Keywords] : n \in 0..MaxKeywords}

\* the loop over keywords of _generate_hashtags
RECURSIVE append_keywords(_, _)
append_keywords(generated_hashtags, keywords) ==
    IF keywords = <<>> THEN generated_hashtags
    ELSE LET kw == Head(keywords)
             hashtag_kw == capitalize(replace(replace(kw, " "), "-"))
         IN  append_keywords(IF hashtag_kw \notin Range(generated_hashtags)
                             THEN Append(generated_hashtags, hashtag_kw)
                             ELSE generated_hashtags,
                             Tail(keywords))

\* _generate_hashtags with the content type's hashtags left out
generate_hashtags_without_type(category, content_type, keywords) ==
    SetToBag(Range(append_keywords(base_hashtags \o category_map(category), keywords)))

\* creator._generate_hashtags(category, content_type, keywords); list(set(...))
\* is a list in no particular order, the bag of its elements
generate_hashtags(category, content_type, keywords) ==
    LET generated_hashtags == base_hashtags \o category_map(category) \o content_type_map(content_type)
    IN  SetToBag(Range(append_keywords(generated_hashtags, keywords)))

\* creator._generate_hashtags(category, content_type, keywords); the method
\* reads and writes no state, so a call directly after another call is left out
GenerateHashtags ==
    /\ creator.alive
    /\ last.op # "_generate_hashtags"
    /\ \E category \in ContentCategory, content_type \in ContentType,
          keywords \in KeywordLists :
          last' = [NoCall EXCEPT !.op = "_generate_hashtags",
                                 !.category = category,
                                 !.content_type = content_type,
                                 !.keywords = keywords,
                                 !.hashtags = generate_hashtags(category,
                                                  content_type, keywords)]
    /\ UNCHANGED <<DEFERRED_ANNOTATIONS, PIL_AVAILABLE, INSTAGRAPI_AVAILABLE,
                   kbFile, counterFile, logFile, images, captions, sessionFile,
                   creator, poster, supervisor, returned, supLog, mainRun>>

NextHashtags == NewCreatorAgent \/ GenerateHashtags

SpecHashtags == InitImage /\ [][NextHashtags]_vars

\* the citation create_content puts on the image and in the caption of a quote
\* (creator.py:234-246); chosen is the index random.choice picked
quote_texts(citacoes, chosen) ==
    LET citation == citacoes[chosen]
        image_author_text == citation.autor
        obra == citacoes[1].obra
    IN  [image_main_text |-> citation.texto,
         image_author_text |-> image_author_text,
         caption_author |-> image_author_text,
         caption_obra |-> IF image_author_text # 0 THEN obra ELSE 0]

\* create_content's texts for a quote item
QuoteTexts ==
    /\ creator.alive
    /\ \E citacoes \in CitationLists :
       \E chosen \in 1..Len(citacoes) :
          LET q == quote_texts(citacoes, chosen)
          IN  last' = [NoCall EXCEPT !.op = "quote_texts",
                                     !.citacoes = citacoes, !.chosen = chosen,
                                     !.image_main_text = q.image_main_text,
                                     !.image_author_text = q.image_author_text,
                                     !.caption_author = q.caption_author,
                                     !.caption_obra = q.caption_obra]
    /\ UNCHANGED <<DEFERRED_ANNOTATIONS, PIL_AVAILABLE, INSTAGRAPI_AVAILABLE,
                   kbFile, counterFile, logFile, images, captions, sessionFile,
                   creator, poster, supervisor, returned, supLog, mainRun>>

NextQuote == NewCreatorAgent \/ QuoteTexts

SpecQuote == InitImage /\ [][NextQuote]_vars

NextType ==
    NewCreatorAgent \/ CreateContent \/ DetermineContentType \/ DeriveCategory

SpecType == InitCreator /\ [][NextType]_vars

\* creator._save_used_content_name(content_name)
SaveUsedContentName ==
    /\ creator.alive
    /\ \E content_name \in Names :
          LET r == save_used_content_name(creator.used_content_names, logFile,
                                          content_name)
          IN  /\ creator' = [creator EXCEPT !.used_content_names = r.used]
              /\ logFile' = r.logFile
              /\ last' = [NoCall EXCEPT !.op = "_save_used_content_name",
                                        !.selected = content_name,
                                        !.usedBefore = creator.used_content_names,
                                        !.logBefore = logFile]
    /\ UNCHANGED <<DEFERRED_ANNOTATIONS, PIL_AVAILABLE, INSTAGRAPI_AVAILABLE,
                   kbFile, counterFile, images, captions, sessionFile, poster,
                   supervisor, returned, supLog, mainRun>>

NextLog == NewCreatorAgent \/ CreateContent \/ SaveUsedContentName

\* the environments an agent that keeps the used-content log is constructed in
InitLog ==
    /\ DEFERRED_ANNOTATIONS \in BOOLEAN
    /\ PIL_AVAILABLE \in BOOLEAN
    /\ INSTAGRAPI_AVAILABLE = TRUE
    /\ kbFile = FullKbFile
    /\ counterFile = FreshCounterFile
    /\ logFile \in LogFiles
    /\ images = {}
    /\ captions = {}
    /\ sessionFile = FALSE
    /\ NoObjects

SpecLog == InitLog /\ [][NextLog]_vars

NextCounter == NewCreatorAgent \/ CreateContent \/ SaveCounter

SpecImage == InitImage /\ [][NextImage]_vars

SpecCounter == InitCreator /\ [][NextCounter]_vars

-----------------------------------------------------------------------------
(* The claims *)

\* the concepts a knowledge base lists under "conceitos" that are not in used
UnusedConcepts(doc, used) ==
    IF doc.kind = "dict" THEN Range(DocGetConceitos(doc)) \ Range(used) ELSE {}

\* the first position of x in seq, 0 when it is not there
IndexOf(seq, x) ==
    IF x \in Range(seq) THEN CHOOSE i \in 1..Len(seq) :
                                 seq[i] = x /\ \A j \in 1..(i - 1) : seq[j] # x
    ELSE 0

\* C1: a create_content call made while the knowledge base still lists a
\* concept that is not in the used-content log selects such a concept, and no
\* two Content objects returned have the same title.
C1_SelectsUnusedConcept ==
    /\ (last.op = "create_content"
        /\ UnusedConcepts(creator.knowledge_base, last.usedBefore) # {})
           => last.selected \in UnusedConcepts(creator.knowledge_base, last.usedBefore)
    /\ \A i, j \in 1..Len(returned) :
           i # j => returned[i].title # returned[j].title

\* C2: every Content returned has image_path set to an image that was saved,
\* and a create_content call whose image generation fails or is skipped
\* returns None and does not raise.
C2_ImageOrNone ==
    /\ \A i \in 1..Len(returned) :
           /\ ~returned[i].image_path.isNone
           /\ returned[i].image_path.id \in images
    /\ (last.op = "create_content"
        /\ UnusedConcepts(creator.knowledge_base, last.usedBefore) # {}
        /\ last.imageFails)
           => last.ret = "None"

\* the knowledge base of the run of main lists a concept that is not in the log
MainKbNotExhausted ==
    /\ kbFile.state = "ok"
    /\ UnusedConcepts(kbFile.doc, load_used_content_names(logFile)) # {}

\* C3: a full_cycle run of main with a loadable configuration and a
\* non-exhausted knowledge base constructs the three agents and calls
\* create_content; post_content comes after it and only for a returned Content
\* with an image_path, verify_post only after post_content gave an id.
C3_FullCycleOrder ==
    (mainRun.ran /\ mainRun.mode = "full_cycle" /\ mainRun.configLoadable
     /\ MainImportable(DEFERRED_ANNOTATIONS, PIL_AVAILABLE) /\ MainKbNotExhausted)
        => /\ {"CreatorAgent", "PosterAgent", "SupervisorAgent"}
                  \subseteq Range(mainRun.calls)
           /\ IndexOf(mainRun.calls, "create_content")
                  > IndexOf(mainRun.calls, "SupervisorAgent")
           /\ "post_content" \in Range(mainRun.calls)
                  => /\ IndexOf(mainRun.calls, "post_content")
                            > IndexOf(mainRun.calls, "create_content")
                     /\ mainRun.has
                     /\ ~mainRun.content.image_path.isNone
           /\ "verify_post" \in Range(mainRun.calls)
                  => /\ IndexOf(mainRun.calls, "verify_post")
                            > IndexOf(mainRun.calls, "post_content")
                     /\ ~mainRun.content.post_id.isNone

C5_IdOnlyAfterUpload ==
    last.op = "post_content"
        => /\ ~last.pid.isNone => (last.uploadCalled /\ last.upload # 0)
           /\ last.exc = ""

\* C7: every verify_post call returned True, the ones with a caption that
\* does not match included, and every health_check call returned True.
C7_VerifyAndHealthTrue ==
    \A i \in 1..Len(supLog) :
        supLog[i].op \in {"verify_post", "health_check"} => supLog[i].ret

\* C7 happens: a verify_post with a mismatching caption, then a health_check
C7_Witness ==
    /\ Len(supLog) = 2
    /\ supLog[1].op = "verify_post"
    /\ supLog[1].caption = "mismatch"
    /\ supLog[1].ret
    /\ supLog[2].op = "health_check"
    /\ supLog[2].ret

\* C8 as stated: every collect_engagement_metrics call returned a metrics
\* record, not None.
C8_MetricsAlwaysReturned ==
    \A i \in 1..Len(supLog) :
        supLog[i].op = "collect_engagement_metrics" => ~supLog[i].metrics.isNone

\* C8 amended: the supervisor's instagram_client is None in every state, and
\* every collect_engagement_metrics call returned None.
C8_MetricsNeverReturned ==
    /\ ~supervisor.instagram_client
    /\ \A i \in 1..Len(supLog) :
           supLog[i].op = "collect_engagement_metrics" => supLog[i].metrics.isNone

\* C8 happens: collect_engagement_metrics was called, after a verify_post
C8_Witness ==
    /\ Len(supLog) = 2
    /\ supLog[1].op = "verify_post"
    /\ supLog[2].op = "collect_engagement_metrics"
    /\ supLog[2].metrics.isNone

\* C9: constructing a CreatorAgent on a knowledge-base file that is missing,
\* unreadable or empty (the counter file being sound) succeeds with
\* knowledge_base None, and create_content on that agent returns None.
C9_BadKbFileGivesNone ==
    /\ (last.op = "CreatorAgent"
        /\ (kbFile.state # "ok" \/ kbFile.doc = NullDoc)
        /\ load_counter(counterFile, FALSE).exc = "")
           => /\ last.exc = ""
              /\ creator.alive
              /\ creator.knowledge_base = NullDoc
    /\ (last.op = "create_content" /\ creator.knowledge_base = NullDoc)
           => last.ret = "None"

C11_CaptionWrittenWithImage ==
    (last.op = "_generate_image_with_pillow" /\ ~last.path.isNone)
        => /\ last.path.id \in images
           /\ last.path.id \in captions

C14_HeightEqualsAdvance ==
    (last.op = "_generate_image_with_pillow" /\ ~last.path.isNone)
        => last.total_content_height = last.drawn

\* C16: post_content does not call photo_upload for a Content whose
\* image_path is unset or names no file, and with an initialised client it
\* returns None for such a Content.
C16_NoUploadWithoutImage ==
    (last.op = "post_content"
     /\ (last.arg.image_path.isNone \/ last.arg.image_path.id \notin images))
        => /\ ~last.uploadCalled
           /\ (INSTAGRAPI_AVAILABLE /\ poster.instagram_client) => last.pid.isNone

\* C16 happens: a logged-in poster was given a Content whose image file is gone
C16_Witness ==
    /\ last.op = "post_content"
    /\ INSTAGRAPI_AVAILABLE
    /\ poster.instagram_client
    /\ ~last.arg.image_path.isNone
    /\ last.arg.image_path.id \notin images
    /\ last.pid.isNone
    /\ ~last.uploadCalled

\* C17: _initialize_client returns True exactly when instagram_client is not
\* None afterwards, and post_content uploads only through a client that is
\* not None.
C17_TrueIffClient ==
    /\ (last.op = "_initialize_client"
        \/ (last.op = "PosterAgent" /\ INSTAGRAPI_AVAILABLE))
           => (last.initRet <=> poster.instagram_client)
    /\ (last.op = "post_content" /\ last.uploadCalled) => poster.instagram_client

\* C17 happens: the loaded session was invalid and the relogin failed
C17_Witness ==
    /\ last.op = "_initialize_client"
    /\ last.clientCalls = <<"load_settings", "get_self_info", "login">>
    /\ last.ext.login = "False"
    /\ ~last.initRet
    /\ ~poster.instagram_client

\* _initialize_client ran with the client library present
ClientInitialised ==
    INSTAGRAPI_AVAILABLE /\ last.op \in {"PosterAgent", "_initialize_client"}

\* a session file was configured and existed when _initialize_client ran
SessionFileFound == poster.session_file /\ last.sessionBefore

\* C18 as stated: the session is loaded when its file is there, login is
\* attempted only when no session file was loaded, and with neither a session
\* file nor both credentials no login is attempted and the client is None.
C18_LoginOnlyWithoutSession ==
    ClientInitialised
        => /\ SessionFileFound => "load_settings" \in Range(last.clientCalls)
           /\ "login" \in Range(last.clientCalls)
                  => "load_settings" \notin Range(last.clientCalls)
           /\ (~SessionFileFound /\ ~(poster.username /\ poster.password))
                  => (last.clientCalls = <<>> /\ ~poster.instagram_client)

\* C18 amended: the session is loaded exactly when its file is there; login
\* is attempted exactly when the loaded session fails get_self_info, or when
\* no session file is there and both credentials are given; with neither a
\* session file nor both credentials nothing is called and the client is None.
C18_LoginWithoutSessionOrAfterInvalid ==
    ClientInitialised
        => /\ "load_settings" \in Range(last.clientCalls) <=> SessionFileFound
           /\ "login" \in Range(last.clientCalls)
                  <=> \/ /\ SessionFileFound
                         /\ last.ext.load_settings = "ok"
                         /\ last.ext.get_self_info = "raise"
                      \/ /\ ~SessionFileFound
                         /\ poster.username /\ poster.password
           /\ (~SessionFileFound /\ ~(poster.username /\ poster.password))
                  => (last.clientCalls = <<>> /\ ~poster.instagram_client)

\* C18 happens: the loaded session was invalid and the relogin succeeded
C18_Witness ==
    /\ ClientInitialised
    /\ SessionFileFound
    /\ poster.username /\ poster.password
    /\ last.clientCalls = <<"load_settings", "get_self_info", "login">>
    /\ last.initRet
    /\ poster.instagram_client

\* C19: whenever _initialize_client logs in successfully while a session_file
\* is configured, after a loaded session proved invalid included, it writes
\* the session to session_file, and it returns True even if the write fails.
C19_SessionSavedAfterLogin ==
    (ClientInitialised /\ poster.session_file
     /\ "login" \in Range(last.clientCalls) /\ last.ext.login = "True")
        => /\ "dump_settings" \in Range(last.clientCalls)
           /\ last.ext.dump_settings = "ok" => sessionFile
           /\ last.initRet
           /\ poster.instagram_client

\* C20: with a content_type_filter given, the content type create_content
\* works out for a knowledge-base item is the filter's, and a Content it
\* returns has that type.
C20_FilterGivesType ==
    /\ (last.op = "_determine_content_type" /\ last.filter # "None")
           => last.ret = last.filter
    /\ (last.op = "create_content" /\ last.ret = "Content" /\ last.filter # "None")
           => last.content.content_type = last.filter

\* C21: deriving the category never fails: it is the first entry of the
\* item's 'categorias' when that is a ContentCategory value, and otherwise the
\* category argument or, without one, REFLECTION; for an item whose
\* 'categorias' is missing, empty or unrecognised too.
C21_CategoryNeverFails ==
    last.op = "actual_category"
        => /\ last.exc = ""
           /\ last.ret =
                  IF /\ last.kbItem.catKind = "list"
                     /\ last.kbItem.categorias # <<>>
                     /\ last.kbItem.categorias[1] \in ContentCategory
                  THEN last.kbItem.categorias[1]
                  ELSE IF last.category # "None" THEN last.category
                  ELSE "reflexoes"

\* C22: for a quote the caption cites what the image cites: the author and
\* the work appended to the caption are those of the citation chosen for the
\* image text.
C22_CaptionCitesChosen ==
    last.op = "quote_texts"
        => /\ last.image_main_text = last.citacoes[last.chosen].texto
           /\ last.caption_author = last.citacoes[last.chosen].autor
           /\ last.caption_obra # 0
                  => last.caption_obra = last.citacoes[last.chosen].obra

\* C23: _generate_hashtags returns a list without duplicates that holds the
\* three base hashtags, the hashtags of the category, those of the content
\* type, and for every keyword the keyword without spaces and hyphens,
\* capitalised.
C23_HashtagsComplete ==
    last.op = "_generate_hashtags"
        => /\ \A tag \in BagToSet(last.hashtags) : CopiesIn(tag, last.hashtags) = 1
           /\ Range(base_hashtags) \subseteq BagToSet(last.hashtags)
           /\ Range(category_map(last.category)) \subseteq BagToSet(last.hashtags)
           /\ Range(content_type_map(last.content_type))
                  \subseteq BagToSet(last.hashtags)
           /\ \A i \in 1..Len(last.keywords) :
                  \E tag \in BagToSet(last.hashtags) :
                      LET kept == SelectSeq(last.keywords[i],
                                            LAMBDA c : c \notin {" ", "-"})
                      IN  /\ Len(tag) = Len(kept)
                          /\ \A j \in 1..Len(tag) :
                                 tag[j] = IF j = 1 THEN Upper(kept[j])
                                          ELSE Lower(kept[j])

\* a call with two keywords, one with a hyphen and one that is already the
\* category's hashtag "Freud"
C23_Witness ==
    /\ last.op = "_generate_hashtags"
    /\ last.category = "conceitos_freudianos"
    /\ last.keywords = <<<<"a", "u", "t", "o", "-", "e", "s", "t", "i", "m", "a">>,
                         <<"f", "r", "e", "u", "d">>>>
    /\ <<"A", "u", "t", "o", "e", "s", "t", "i", "m", "a">> \in BagToSet(last.hashtags)
    /\ BagCardinality(last.hashtags) = 8

\* C25: once every concept of the knowledge base is in the used-content log,
\* a create_content call returns None and changes nothing: the counter, the
\* counter file, the used list and the log file stay as they were.
C25_ExhaustedReturnsNone ==
    (/\ last.op = "create_content"
     /\ creator.knowledge_base.kind = "dict"
     /\ DocGetConceitos(creator.knowledge_base) # <<>>
     /\ UnusedConcepts(creator.knowledge_base, last.usedBefore) = {})
        => /\ last.ret = "None"
           /\ last.exc = ""
           /\ creator.current_counter = last.counterBefore
           /\ counterFile = last.fileBefore
           /\ creator.used_content_names = last.usedBefore
           /\ logFile = last.logBefore

C27_OptionalLayersSkipped ==
    (last.op = "_generate_image_with_pillow" /\ PIL_AVAILABLE)
        => /\ last.fail \in {"watermark", "handle", "small_logo"}
                  => /\ last.ret = "Path"
                     /\ last.path = PathOf(last.cid)
                     /\ last.cid \in images
           /\ last.fail \in {"background", "text", "save"}
                  => /\ last.ret = "None"
                     /\ last.path.isNone

\* C27 happens: the watermark failed and the image was saved all the same
C27_Witness ==
    /\ last.op = "_generate_image_with_pillow"
    /\ last.fail = "watermark"
    /\ last.ret = "Path"
    /\ last.cid \in images

====
